---------------------------- MODULE Spec2Model ----------------------------
(***************************************************************************)
(* A model of heisenberg's core: the pattern router (src/core/router.rs),  *)
(* the tower entry point (src/tower/service.rs), the process manager       *)
(* (src/services/process.rs), the health checker (src/services/health.rs)  *)
(* and the development proxy (src/services/proxy.rs).                      *)
(*                                                                         *)
(* Strings are runs of characters.  A character is a token; every token    *)
(* is one byte of UTF-8 except EAcute, which is two, so that Rust's        *)
(* str::len (bytes) and chars().nth (characters) can be told apart.        *)
(***************************************************************************)
EXTENDS Integers, Sequences, FiniteSets, TLC

VARIABLES
    router,         \* Result of Router::new: the Router or the failure
    pattern_cache,  \* Router.pattern_cache: path -> index into Router.routes
    first,          \* history: path -> what the first match_route(path) returned
    ret,            \* the last router call and what it returned
    processes,      \* ProcessManager.processes: route id -> the child its handle owns
    child,          \* every child spawned so far: "running", "exited" or "reaped"
    task,           \* each caller of start_process: where it stands, its arguments
    dropped,        \* the ProcessManager has been dropped
    pret,           \* the last ProcessManager call and what it returned
    now,            \* the time since wait_for_healthy was called, in ticks of 500 ms
    target,         \* the dev server a HealthChecker probes: how it answers, since when
    waiter,         \* the wait_for_healthy call: where it stands, its last probe
    proxied         \* the last proxy_request call: what it met and what it returned

rvars == <<router, pattern_cache, first, ret>>

pvars == <<processes, child, task, dropped, pret>>

hvars == <<now, target, waiter>>

svars == <<now, target, waiter, proxied>>

vars == <<router, pattern_cache, first, ret, processes, child, task, dropped, pret,
          now, target, waiter, proxied>>

(***************************************************************************)
(* Bounds and program constants                                            *)
(***************************************************************************)
\* the largest route list handed to Router::new where only construction is checked
MaxBuildRoutes == 3

\* the largest route list of a router that goes on to resolve paths
MaxRoutes == 2

\* the most distinct paths one router is asked to resolve
MaxPaths == 2

\* route_priority's constant (router.rs:212 and router.rs:216)
K == 1000

(***************************************************************************)
(* Strings                                                                 *)
(*                                                                         *)
(* A string is kept as its runs: <<[ch |-> "/", n |-> 1], [ch |-> "a",     *)
(* n |-> 999]>> is "/" followed by 999 times "a".  Neighbouring runs hold  *)
(* different characters and no run is empty, so two strings are equal      *)
(* exactly when their runs are.                                            *)
(***************************************************************************)
EAcute == "U+00E9"

\* the bytes of a character's UTF-8 encoding
ByteWidth(c) == IF c = EAcute THEN 2 ELSE 1

RECURSIVE Str(_)
\* the string of a sequence of characters
Str(cs) ==
    IF cs = <<>> THEN <<>>
    ELSE LET front == Str(SubSeq(cs, 1, Len(cs) - 1))
             c == cs[Len(cs)]
         IN  IF front # <<>> /\ front[Len(front)].ch = c
             THEN [front EXCEPT ![Len(front)].n = @ + 1]
             ELSE Append(front, [ch |-> c, n |-> 1])

RECURSIVE ByteLen(_)
\* str::len(): the length in bytes
ByteLen(s) == IF s = <<>> THEN 0 ELSE s[1].n * ByteWidth(s[1].ch) + ByteLen(Tail(s))

NoChar == "<none>"

\* Option::None where a route configuration is expected
NoRoute == [none |-> TRUE]

RECURSIVE CharsNth(_, _)
\* s.chars().nth(n): the n-th character (from 0), or None
CharsNth(s, n) ==
    IF s = <<>> THEN NoChar
    ELSE IF n < s[1].n THEN s[1].ch
    ELSE CharsNth(Tail(s), n - s[1].n)

\* str::starts_with: p's runs open s, the last of them possibly cut short
StartsWith(s, p) ==
    \/ p = <<>>
    \/ /\ p # <<>>
       /\ Len(p) <= Len(s)
       /\ SubSeq(s, 1, Len(p) - 1) = SubSeq(p, 1, Len(p) - 1)
       /\ s[Len(p)].ch = p[Len(p)].ch
       /\ s[Len(p)].n >= p[Len(p)].n

\* s followed by t
Cat(s, t) ==
    IF s = <<>> THEN t
    ELSE IF t = <<>> THEN s
    ELSE IF s[Len(s)].ch = t[1].ch
         THEN SubSeq(s, 1, Len(s) - 1) \o <<[ch |-> t[1].ch, n |-> s[Len(s)].n + t[1].n]>>
                  \o Tail(t)
    ELSE s \o t

StarSuffix == Str(<<"/", "*">>)

\* pattern ends with "/*"
HasStarSuffix(s) ==
    /\ Len(s) >= 2
    /\ s[Len(s)] = [ch |-> "*", n |-> 1]
    /\ s[Len(s) - 1].ch = "/"

\* the Some(prefix) of pattern.strip_suffix("/*")
StripStarSuffix(s) ==
    IF s[Len(s) - 1].n = 1 THEN SubSeq(s, 1, Len(s) - 2)
    ELSE [SubSeq(s, 1, Len(s) - 1) EXCEPT ![Len(s) - 1].n = @ - 1]

\* "/" followed by n - 1 times "a": a text of n bytes
LongText(n) == <<[ch |-> "/", n |-> 1], [ch |-> "a", n |-> n - 1]>>

Patterns ==
    { Str(<<>>),
      Str(<<"/", "*">>),
      Str(<<"/", "a">>),
      Str(<<"/", "a", "/", "*">>),
      Str(<<"/", EAcute, "/", "*">>),
      LongText(K),
      Cat(LongText(K), StarSuffix),
      Cat(LongText(K + 1), StarSuffix) }

Paths ==
    { Str(<<"/">>),
      Str(<<"/", "a">>),
      Str(<<"/", "a", "/">>),
      Str(<<"/", "a", "/", "b">>),
      Str(<<"/", "a", "b">>),
      Str(<<"/", EAcute, "/", "a">>),
      Str(<<"/", EAcute, "a", "/">>),
      LongText(K),
      LongText(K + 1) }

Dirs == {"./dist", "./admin/dist"}

Modes == {"Development", "Production"}

\* SpaRouteConfig: the pattern and, standing for the other fields, embed_dir
RouteConfigs == [pattern : Patterns, embed_dir : Dirs]

\* the routes of a router that resolves paths: its patterns tell them apart
ServedConfigs == [pattern : Patterns, embed_dir : {"./dist"}]

RECURSIVE SeqsUpTo(_, _)
SeqsUpTo(S, n) ==
    IF n = 0 THEN {<<>>}
    ELSE LET shorter == SeqsUpTo(S, n - 1)
         IN  shorter \cup {Append(s, x) : s \in {t \in shorter : Len(t) = n - 1}, x \in S}

(***************************************************************************)
(* Router::new                                                             *)
(***************************************************************************)
\* validate_routes gone wrong: only neighbouring routes are compared
ValidateRoutesDuplicateAdjacent(routes) ==
    \E i \in DOMAIN routes :
        i + 1 \in DOMAIN routes /\ routes[i].pattern = routes[i + 1].pattern

\* validate_routes: the first loop finds a pattern seen before
ValidateRoutesDuplicate(routes) ==
    \E i, j \in DOMAIN routes : i < j /\ routes[i].pattern = routes[j].pattern

\* route_priority, as the two's complement reading of the usize it returns:
\* a negative n stands for 2^64 + n, the value a wrapping subtraction leaves
RoutePriority(pattern) ==
    IF pattern = StarSuffix THEN K
    ELSE IF HasStarSuffix(pattern) THEN K - ByteLen(StripStarSuffix(pattern))
    ELSE 0

\* 1000 - prefix.len() leaves the usize range
PriorityOverflows(pattern) ==
    /\ pattern # StarSuffix
    /\ HasStarSuffix(pattern)
    /\ ByteLen(StripStarSuffix(pattern)) > K

\* usize's cmp on the two's complement readings
UsizeLess(a, b) == IF (a < 0) = (b < 0) THEN a < b ELSE b < 0

\* one step of a stable sort: e goes behind every entry that is not greater
SortInsert(sorted, e) ==
    LET k == Cardinality({i \in DOMAIN sorted :
                 ~UsizeLess(RoutePriority(e.route.pattern),
                            RoutePriority(sorted[i].route.pattern))})
    IN  SubSeq(sorted, 1, k) \o <<e>> \o SubSeq(sorted, k + 1, Len(sorted))

RECURSIVE StableSort(_)
\* sorted_routes.sort_by(route_priority) on the enumerated routes
StableSort(s) ==
    IF s = <<>> THEN <<>>
    ELSE SortInsert(StableSort(SubSeq(s, 1, Len(s) - 1)), s[Len(s)])

\* routes.into_iter().enumerate().collect(), then the sort
SortedRoutes(routes) ==
    StableSort([i \in DOMAIN routes |-> [index |-> i - 1, route |-> routes[i]]])

\* compile_pattern on a non-empty pattern
CompilePattern(pattern) ==
    IF pattern = StarSuffix THEN [kind |-> "CatchAll", text |-> <<>>]
    ELSE IF HasStarSuffix(pattern)
         THEN IF StripStarSuffix(pattern) = <<>>
              THEN [kind |-> "CatchAll", text |-> <<>>]
              ELSE [kind |-> "Prefix", text |-> StripStarSuffix(pattern)]
    ELSE [kind |-> "Exact", text |-> pattern]

\* the RouteEntry pushed for one sorted route
RouteEntry(e) ==
    [matcher |-> CompilePattern(e.route.pattern), config |-> e.route, priority |-> e.index]

NoRouter == [status |-> "unbuilt", error |-> "none", input |-> <<>>,
             mode |-> "Development", routes |-> <<>>]

\* What Router::new(routes, mode) leaves.  overflow_checks is the build's
\* setting: with it a subtraction that leaves usize panics, without it wraps.
\* The comparator runs only when there are two routes or more.
RouterNewResult(routes, mode, overflow_checks) ==
    LET base == [NoRouter EXCEPT !.input = routes, !.mode = mode]
    IN  IF ValidateRoutesDuplicate(routes)
        THEN [base EXCEPT !.status = "config_error", !.error = "Duplicate route pattern"]
        ELSE IF /\ overflow_checks
                /\ Len(routes) >= 2
                /\ \E i \in DOMAIN routes : PriorityOverflows(routes[i].pattern)
        THEN [base EXCEPT !.status = "panic", !.error = "attempt to subtract with overflow"]
        ELSE IF \E i \in DOMAIN routes : routes[i].pattern = <<>>
        THEN [base EXCEPT !.status = "config_error", !.error = "Route pattern cannot be empty"]
        ELSE [base EXCEPT !.status = "ok",
                          !.routes = [i \in DOMAIN routes |-> RouteEntry(SortedRoutes(routes)[i])]]

\* a call's record: the route returned (result), whether the cache answered
\* (hit), route_handler's variant (handler) and who call() let respond (served)
NoRet == [op |-> "none", path |-> <<>>, result |-> NoRoute, hit |-> FALSE,
          handler |-> "None", served |-> "none"]

RouterNew(routes, mode, overflow_checks) ==
    /\ router.status = "unbuilt"
    /\ router' = RouterNewResult(routes, mode, overflow_checks)
    /\ ret' = [NoRet EXCEPT !.op = "new"]
    /\ UNCHANGED <<pattern_cache, first>>
    /\ UNCHANGED pvars
    /\ UNCHANGED svars

(***************************************************************************)
(* Router::match_route, Router::route_handler                              *)
(***************************************************************************)
\* PathMatcher::matches
Matches(matcher, path) ==
    CASE matcher.kind = "Exact" -> path = matcher.text
      [] matcher.kind = "Prefix" ->
            /\ StartsWith(path, matcher.text)
            /\ \/ ByteLen(path) = ByteLen(matcher.text)
               \/ CharsNth(path, ByteLen(matcher.text)) = "/"
      [] matcher.kind = "CatchAll" -> TRUE

\* the scan gone wrong: the last entry that matches is taken
ScanRoutesLast(routes, path) ==
    LET hits == {i \in DOMAIN routes : Matches(routes[i].matcher, path)}
    IN  IF hits = {} THEN -1
        ELSE (CHOOSE i \in hits : \A j \in hits : i >= j) - 1

\* the scan of match_route: the index (from 0) of the first entry that
\* matches, or -1
ScanRoutes(routes, path) ==
    LET hits == {i \in DOMAIN routes : Matches(routes[i].matcher, path)}
    IN  IF hits = {} THEN -1
        ELSE (CHOOSE i \in hits : \A j \in hits : i <= j) - 1

\* the cache insert gone wrong: the position counted from 1 is stored
CacheInsertFromOne(cache, path, index) ==
    [p \in DOMAIN cache \cup {path} |-> IF p = path THEN index + 1 ELSE cache[p]]

\* self.pattern_cache.insert(path.to_string(), index)
CacheInsert(cache, path, index) ==
    [p \in DOMAIN cache \cup {path} |-> IF p = path THEN index ELSE cache[p]]

\* self.routes.get(route_index).map(|entry| &entry.config)
RoutesGet(routes, index) ==
    IF index >= 0 /\ index < Len(routes) THEN routes[index + 1].config ELSE NoRoute

\* match_route: [result, cache], the route returned and the cache it leaves
MatchRoute(rt, cache, path) ==
    IF path \in DOMAIN cache
    THEN [result |-> RoutesGet(rt.routes, cache[path]), cache |-> cache]
    ELSE LET index == ScanRoutes(rt.routes, path)
         IN  IF index >= 0
             THEN [result |-> rt.routes[index + 1].config,
                   cache |-> CacheInsert(cache, path, index)]
             ELSE [result |-> NoRoute, cache |-> cache]

\* the first result recorded for each path asked
Remember(hist, path, result) ==
    IF path \in DOMAIN hist THEN hist
    ELSE [p \in DOMAIN hist \cup {path} |-> IF p = path THEN result ELSE hist[p]]

CanAsk(path) ==
    /\ router.status = "ok"
    /\ path \in DOMAIN first \/ Cardinality(DOMAIN first) < MaxPaths

MatchRouteCall(path) ==
    /\ CanAsk(path)
    /\ LET m == MatchRoute(router, pattern_cache, path)
       IN  /\ pattern_cache' = m.cache
           /\ first' = Remember(first, path, m.result)
           /\ ret' = [NoRet EXCEPT !.op = "match_route", !.path = path,
                         !.result = m.result, !.hit = path \in DOMAIN pattern_cache]
    /\ UNCHANGED router
    /\ UNCHANGED pvars
    /\ UNCHANGED svars

\* route_handler gone wrong: the two variants are swapped
HandlerOfSwapped(mode) == IF mode = "Development" THEN "StaticFiles" ELSE "Proxy"

\* the RouteHandler variant route_handler wraps a match in
HandlerOf(mode) == IF mode = "Development" THEN "Proxy" ELSE "StaticFiles"

RouteHandlerCall(path) ==
    /\ CanAsk(path)
    /\ LET m == MatchRoute(router, pattern_cache, path)
       IN  /\ pattern_cache' = m.cache
           /\ first' = Remember(first, path, m.result)
           /\ ret' = [NoRet EXCEPT !.op = "route_handler", !.path = path,
                         !.result = m.result, !.hit = path \in DOMAIN pattern_cache,
                         !.handler = IF m.result = NoRoute THEN "None"
                                     ELSE HandlerOf(router.mode)]
    /\ UNCHANGED router
    /\ UNCHANGED pvars
    /\ UNCHANGED svars

(***************************************************************************)
(* HeisenbergService::new, HeisenbergService::call                         *)
(***************************************************************************)
\* HeisenbergService::new: Router::new under the detected mode
ServiceNew(routes, mode, overflow_checks) ==
    /\ router.status = "unbuilt"
    /\ router' = RouterNewResult(routes, mode, overflow_checks)
    /\ ret' = [NoRet EXCEPT !.op = "service_new"]
    /\ UNCHANGED <<pattern_cache, first>>
    /\ UNCHANGED pvars
    /\ UNCHANGED svars

\* who produces the response: both branches of call end in inner_service.call(req)
ServedBy(route_match, mode) == IF route_match # NoRoute THEN "inner" ELSE "inner"

ServiceCall(path) ==
    /\ CanAsk(path)
    /\ LET m == MatchRoute(router, pattern_cache, path)
       IN  /\ pattern_cache' = m.cache
           /\ first' = Remember(first, path, m.result)
           /\ ret' = [NoRet EXCEPT !.op = "call", !.path = path, !.result = m.result,
                         !.hit = path \in DOMAIN pattern_cache,
                         !.served = ServedBy(m.result, router.mode)]
    /\ UNCHANGED router
    /\ UNCHANGED pvars
    /\ UNCHANGED svars

(***************************************************************************)
(* ProcessManager                                                          *)
(*                                                                         *)
(* A child is "running" until it exits or is killed, "exited" until it is  *)
(* waited on, and "reaped" from then on.  A ProcessHandle is the number of *)
(* the child it owns; dropping a handle (std::process::Child has no Drop   *)
(* that kills) leaves the child as it is.                                  *)
(***************************************************************************)
RouteIds == {"app", "admin"}

Tasks == {"t1", "t2"}

\* the most children spawned in one run
MaxSpawns == 3

NoProcesses == <<>>

\* guard: the call holds the MutexGuard of self.processes across an await
IdleTask == [pc |-> "idle", route_id |-> "app", child |-> 0, open_browser |-> FALSE,
             guard |-> FALSE]

\* self.processes.lock() would block: a call holds the guard
LockHeld == \E t \in Tasks : task[t].guard

\* a call's record: what it returned (result), the registry it found
\* (before), the children it killed and waited on (stopped), and whether
\* it tried to open the browser
NoPret == [op |-> "none", route_id |-> "app", result |-> "none", before |-> NoProcesses,
           stopped |-> {}, browser |-> "none"]

\* HashMap::insert: the handle stored under the id before, if any, is dropped
RegistryInsert(procs, id, c) ==
    [i \in DOMAIN procs \cup {id} |-> IF i = id THEN c ELSE procs[i]]

\* HashMap::remove
RegistryRemove(procs, id) == [i \in DOMAIN procs \ {id} |-> procs[i]]

\* the children the registry's handles own
Tracked(procs) == {procs[i] : i \in DOMAIN procs}

\* handle.child.kill(); handle.child.wait() on each child of cs
KillAndWait(ch, cs) == [c \in DOMAIN ch |-> IF c \in cs THEN "reaped" ELSE ch[c]]

\* start_process gone wrong: the command is checked after the spawn, so the
\* call that fails leaves a child running
StartProcessChecksLate(t, id, command_empty, spawn_ok, open) ==
    /\ ~dropped
    /\ task[t].pc = "idle"
    /\ Len(child) < MaxSpawns
    /\ child' = Append(child, "running")
    /\ IF command_empty \/ ~spawn_ok
       THEN /\ pret' = [NoPret EXCEPT !.op = "start_process", !.route_id = id,
                           !.result = "Process", !.before = processes]
            /\ UNCHANGED task
       ELSE /\ task' = [task EXCEPT ![t] = [IdleTask EXCEPT !.pc = "spawned",
                            !.route_id = id, !.child = Len(child) + 1,
                            !.open_browser = open]]
            /\ pret' = [NoPret EXCEPT !.op = "spawn", !.route_id = id]
    /\ UNCHANGED <<processes, dropped>>
    /\ UNCHANGED rvars
    /\ UNCHANGED svars

\* start_process up to the spawn: the empty command and the failed spawn
\* return a Process error, a spawned child is running
StartProcess(t, id, command_empty, spawn_ok, open) ==
    /\ ~dropped
    /\ task[t].pc = "idle"
    /\ IF command_empty \/ ~spawn_ok
       THEN /\ pret' = [NoPret EXCEPT !.op = "start_process", !.route_id = id,
                           !.result = "Process", !.before = processes]
            /\ UNCHANGED <<child, task>>
       ELSE /\ Len(child) < MaxSpawns
            /\ child' = Append(child, "running")
            /\ task' = [task EXCEPT ![t] = [IdleTask EXCEPT !.pc = "spawned",
                            !.route_id = id, !.child = Len(child) + 1,
                            !.open_browser = open]]
            /\ pret' = [NoPret EXCEPT !.op = "spawn", !.route_id = id]
    /\ UNCHANGED <<processes, dropped>>
    /\ UNCHANGED rvars
    /\ UNCHANGED svars

\* start_process gone wrong: the guard is bound to a variable that lives to
\* the end of the function, so the lock is held through the health wait
StartInsertHoldsGuard(t) ==
    /\ task[t].pc = "spawned"
    /\ ~LockHeld
    /\ processes' = RegistryInsert(processes, task[t].route_id, task[t].child)
    /\ task' = [task EXCEPT ![t].pc = "waiting", ![t].guard = TRUE]
    /\ pret' = [NoPret EXCEPT !.op = "insert", !.route_id = task[t].route_id,
                   !.before = processes]
    /\ UNCHANGED <<child, dropped>>
    /\ UNCHANGED rvars
    /\ UNCHANGED svars

\* self.processes.lock().unwrap().insert(route_id.to_string(), handle): the
\* guard is a temporary, dropped at the end of the statement
StartInsert(t) ==
    /\ task[t].pc = "spawned"
    /\ ~LockHeld
    /\ processes' = RegistryInsert(processes, task[t].route_id, task[t].child)
    /\ task' = [task EXCEPT ![t].pc = "waiting"]
    /\ pret' = [NoPret EXCEPT !.op = "insert", !.route_id = task[t].route_id,
                   !.before = processes]
    /\ UNCHANGED <<child, dropped>>
    /\ UNCHANGED rvars
    /\ UNCHANGED svars

\* wait_for_healthy(30 s) returned Ok: on to the browser, or done
StartHealthy(t) ==
    /\ task[t].pc = "waiting"
    /\ IF task[t].open_browser
       THEN /\ task' = [task EXCEPT ![t].pc = "browser"]
            /\ pret' = [NoPret EXCEPT !.op = "healthy", !.route_id = task[t].route_id]
       ELSE /\ task' = [task EXCEPT ![t] = IdleTask]
            /\ pret' = [NoPret EXCEPT !.op = "start_process", !.route_id = task[t].route_id,
                           !.result = "Ok", !.before = processes]
    /\ UNCHANGED <<processes, child, dropped>>
    /\ UNCHANGED rvars
    /\ UNCHANGED svars

\* wait_for_healthy(30 s) returned the timeout error, which `?` returns
StartTimeout(t) ==
    /\ task[t].pc = "waiting"
    /\ task' = [task EXCEPT ![t] = IdleTask]
    /\ pret' = [NoPret EXCEPT !.op = "start_process", !.route_id = task[t].route_id,
                   !.result = "HealthCheck", !.before = processes]
    /\ UNCHANGED <<processes, child, dropped>>
    /\ UNCHANGED rvars
    /\ UNCHANGED svars

\* start_process gone wrong: `?` on open_browser returns its error
StartBrowserPropagates(t, opened) ==
    /\ task[t].pc = "browser"
    /\ task' = [task EXCEPT ![t] = IdleTask]
    /\ pret' = [NoPret EXCEPT !.op = "start_process", !.route_id = task[t].route_id,
                   !.result = IF opened THEN "Ok" ELSE "Config", !.before = processes,
                   !.browser = IF opened THEN "opened" ELSE "failed"]
    /\ UNCHANGED <<processes, child, dropped>>
    /\ UNCHANGED rvars
    /\ UNCHANGED svars

\* open_browser(dev_server_url).await: its error is only logged
StartBrowser(t, opened) ==
    /\ task[t].pc = "browser"
    /\ task' = [task EXCEPT ![t] = IdleTask]
    /\ pret' = [NoPret EXCEPT !.op = "start_process", !.route_id = task[t].route_id,
                   !.result = "Ok", !.before = processes,
                   !.browser = IF opened THEN "opened" ELSE "failed"]
    /\ UNCHANGED <<processes, child, dropped>>
    /\ UNCHANGED rvars
    /\ UNCHANGED svars

\* is_process_running gone wrong: the exited child's record is left in place
IsProcessRunningResultKeepsRecord(procs, ch, id) ==
    IF id \in DOMAIN procs
    THEN IF ch[procs[id]] = "running"
         THEN [running |-> TRUE, processes |-> procs, child |-> ch]
         ELSE [running |-> FALSE, processes |-> procs,
               child |-> [ch EXCEPT ![procs[id]] = "reaped"]]
    ELSE [running |-> FALSE, processes |-> procs, child |-> ch]

\* is_process_running: [running, processes, child].  try_wait() is Ok(None)
\* on a running child; on a child that has exited it is Ok(Some(_)), or
\* Err(_) where the exit status was collected elsewhere, and both arms
\* remove the record and return false
IsProcessRunningResult(procs, ch, id) ==
    IF id \in DOMAIN procs
    THEN IF ch[procs[id]] = "running"
         THEN [running |-> TRUE, processes |-> procs, child |-> ch]
         ELSE [running |-> FALSE, processes |-> RegistryRemove(procs, id),
               child |-> [ch EXCEPT ![procs[id]] = "reaped"]]
    ELSE [running |-> FALSE, processes |-> procs, child |-> ch]

IsProcessRunning(id) ==
    /\ ~dropped
    /\ ~LockHeld
    /\ LET r == IsProcessRunningResult(processes, child, id)
       IN  /\ processes' = r.processes
           /\ child' = r.child
           /\ pret' = [NoPret EXCEPT !.op = "is_process_running", !.route_id = id,
                          !.result = IF r.running THEN "true" ELSE "false",
                          !.before = processes]
    /\ UNCHANGED <<task, dropped>>
    /\ UNCHANGED rvars
    /\ UNCHANGED svars

\* stop_process gone wrong: get_mut in place of remove leaves the record
StopProcessResultKeepsRecord(procs, id) ==
    IF id \in DOMAIN procs
    THEN [processes |-> procs, stopped |-> {procs[id]}]
    ELSE [processes |-> procs, stopped |-> {}]

\* stop_process: [processes, stopped], the registry left and the children
\* killed and waited on
StopProcessResult(procs, id) ==
    IF id \in DOMAIN procs
    THEN [processes |-> RegistryRemove(procs, id), stopped |-> {procs[id]}]
    ELSE [processes |-> procs, stopped |-> {}]

StopProcess(id) ==
    /\ ~dropped
    /\ ~LockHeld
    /\ LET r == StopProcessResult(processes, id)
       IN  /\ processes' = r.processes
           /\ child' = KillAndWait(child, r.stopped)
           /\ pret' = [NoPret EXCEPT !.op = "stop_process", !.route_id = id,
                          !.result = "Ok", !.before = processes, !.stopped = r.stopped]
    /\ UNCHANGED <<task, dropped>>
    /\ UNCHANGED rvars
    /\ UNCHANGED svars

\* stop_all_processes gone wrong: values_mut() in place of drain() leaves
\* the records
StopAllResultKeepsRecords(procs) == [processes |-> procs, stopped |-> Tracked(procs)]

\* stop_all_processes: [processes, stopped]: drain() empties the map
StopAllResult(procs) == [processes |-> NoProcesses, stopped |-> Tracked(procs)]

StopAllProcesses ==
    /\ ~dropped
    /\ ~LockHeld
    /\ LET r == StopAllResult(processes)
       IN  /\ processes' = r.processes
           /\ child' = KillAndWait(child, r.stopped)
           /\ pret' = [NoPret EXCEPT !.op = "stop_all_processes", !.result = "Ok",
                          !.before = processes, !.stopped = r.stopped]
    /\ UNCHANGED <<task, dropped>>
    /\ UNCHANGED rvars
    /\ UNCHANGED svars

\* Drop for ProcessManager: no start_process future borrows the manager
\* any more; stop_all_processes runs
Drop ==
    /\ ~dropped
    /\ ~LockHeld
    /\ \A t \in Tasks : task[t].pc = "idle"
    /\ LET r == StopAllResult(processes)
       IN  /\ processes' = r.processes
           /\ child' = KillAndWait(child, r.stopped)
           /\ pret' = [NoPret EXCEPT !.op = "drop", !.before = processes,
                          !.stopped = r.stopped]
    /\ dropped' = TRUE
    /\ UNCHANGED task
    /\ UNCHANGED rvars
    /\ UNCHANGED svars

\* a dev server exits by itself
ChildExit(c) ==
    /\ child[c] = "running"
    /\ child' = [child EXCEPT ![c] = "exited"]
    /\ pret' = NoPret
    /\ UNCHANGED <<processes, task, dropped>>
    /\ UNCHANGED rvars
    /\ UNCHANGED svars

(***************************************************************************)
(* HealthChecker                                                           *)
(*                                                                         *)
(* Time is counted in ticks of 500 ms from the call of wait_for_healthy.   *)
(* A step of the program takes no time: the clock advances only while the  *)
(* call waits for a probe to end or sleeps, and never past the moment the  *)
(* per-attempt timer or the sleep ends.  A dev server that has come up     *)
(* healthy stays so.                                                       *)
(***************************************************************************)
\* tokio::time::sleep(Duration::from_millis(500)), in ticks
SleepTicks == 1

\* timeout(Duration::from_secs(3), health_check), in ticks; the client's
\* own timeout of 5 s is longer and never fires first
AttemptTimeout == 6

\* the longest max_wait a call is given, in ticks
MaxWait == 3

\* no call runs longer than this
MaxClock == MaxWait + AttemptTimeout + SleepTicks

NoTime == 0 - 1

NoStatus == 0

\* the status codes a server answers with, one or two of each class
Statuses == {101, 200, 301, 404, 503}

\* http::StatusCode::is_success
IsSuccess(status) == 200 <= status /\ status < 300

\* http::StatusCode::is_client_error
IsClientError(status) == 400 <= status /\ status < 500

\* what client.get(url).send() raced against the per-attempt timer comes to:
\* a response, a reqwest::Error (a transport failure such as a refused
\* connection), or the timer firing first
Response(status) == [kind |-> "response", status |-> status]

TransportError == [kind |-> "error", status |-> NoStatus]

Elapsed == [kind |-> "elapsed", status |-> NoStatus]

Attempts == {Response(s) : s \in Statuses} \cup {TransportError, Elapsed}

\* check_health gone wrong: only is_success() counts
CheckHealthSuccessOnly(attempt) ==
    IF attempt.kind = "elapsed" THEN "HealthCheck"
    ELSE IF attempt.kind = "error" THEN "ProxyError"
    ELSE IF IsSuccess(attempt.status) THEN "Ok"
    ELSE "HealthCheck"

\* check_health: Ok or the kind of HeisenbergError returned.  The timer's
\* Elapsed is mapped to health_check("Health check timed out"); `?` on
\* send() converts a reqwest::Error with From, which is ProxyError; a
\* response is judged by its status
CheckHealth(attempt) ==
    IF attempt.kind = "elapsed" THEN "HealthCheck"
    ELSE IF attempt.kind = "error" THEN "ProxyError"
    ELSE IF IsSuccess(attempt.status) \/ IsClientError(attempt.status) THEN "Ok"
    ELSE "HealthCheck"

\* is_healthy: check_health().await.is_ok()
IsHealthy(attempt) == CheckHealth(attempt) = "Ok"

\* the target answers, and with a status check_health accepts
TargetHealthy(tg) ==
    tg.mode = "answers" /\ (IsSuccess(tg.status) \/ IsClientError(tg.status))

\* a target refuses connections, accepts them without answering, or answers
\* with its status; since is the time from which it has been healthy
Target(mode, status, time) ==
    LET tg == [mode |-> mode, status |-> IF mode = "answers" THEN status ELSE NoStatus,
               since |-> NoTime]
    IN  IF TargetHealthy(tg) THEN [tg EXCEPT !.since = time] ELSE tg

NoProbe == [kind |-> "none", status |-> NoStatus, latency |-> 0, result |-> "none",
            is_healthy |-> FALSE]

IdleWaiter == [pc |-> "idle", max_wait |-> 0, since |-> 0, result |-> "none",
               last |-> NoProbe]

\* while start.elapsed() < max_wait: the next probe, or the timeout error
LoopTop(w, time) ==
    IF time < w.max_wait
    THEN [w EXCEPT !.pc = "probing", !.since = time]
    ELSE [w EXCEPT !.pc = "done", !.result = "HealthCheck"]

\* wait_for_healthy(max_wait) is called: start = Instant::now()
WaitForHealthy(max_wait) ==
    /\ waiter.pc = "idle"
    /\ waiter' = LoopTop([IdleWaiter EXCEPT !.max_wait = max_wait], now)
    /\ UNCHANGED <<now, target, proxied>>
    /\ UNCHANGED <<rvars, pvars>>

\* the attempts a probe begun at time since can end with at time time
AttemptsNow(tg, since, time) ==
    {a \in Attempts :
        \/ a.kind = "error" /\ tg.mode = "refused"
        \/ a.kind = "response" /\ tg.mode = "answers" /\ a.status = tg.status
        \/ a.kind = "elapsed" /\ time - since = AttemptTimeout}

\* self.is_healthy().await returns: Ok(()) of the call, or the sleep
ProbeEnd(attempt) ==
    /\ waiter.pc = "probing"
    /\ attempt \in AttemptsNow(target, waiter.since, now)
    /\ LET last == [kind |-> attempt.kind, status |-> attempt.status,
                    latency |-> now - waiter.since, result |-> CheckHealth(attempt),
                    is_healthy |-> IsHealthy(attempt)]
       IN  waiter' = IF last.is_healthy
                     THEN [waiter EXCEPT !.pc = "done", !.result = "Ok", !.last = last]
                     ELSE [waiter EXCEPT !.pc = "sleeping", !.since = now, !.last = last]
    /\ UNCHANGED <<now, target, proxied>>
    /\ UNCHANGED <<rvars, pvars>>

\* the sleep of 500 ms ends
Wake ==
    /\ waiter.pc = "sleeping"
    /\ now - waiter.since = SleepTicks
    /\ waiter' = LoopTop(waiter, now)
    /\ UNCHANGED <<now, target, proxied>>
    /\ UNCHANGED <<rvars, pvars>>

\* 500 ms pass
Tick ==
    /\ now < MaxClock
    /\ \/ /\ waiter.pc = "probing"
          /\ target.mode # "refused"
          /\ now - waiter.since < AttemptTimeout
       \/ /\ waiter.pc = "sleeping"
          /\ now - waiter.since < SleepTicks
    /\ now' = now + 1
    /\ UNCHANGED <<target, waiter, proxied>>
    /\ UNCHANGED <<rvars, pvars>>

\* the dev server starts up, or changes how it answers
TargetChange(mode, status) ==
    /\ waiter.pc # "done"
    /\ ~TargetHealthy(target)
    /\ target' = Target(mode, status, now)
    /\ target' # target
    /\ UNCHANGED <<now, waiter, proxied>>
    /\ UNCHANGED <<rvars, pvars>>

(***************************************************************************)
(* ProxyService                                                            *)
(*                                                                         *)
(* A text of the proxy (a URL, a body, a page) is a sequence of pieces; a  *)
(* piece is a run of bytes that is kept or replaced as a whole, and        *)
(* format! is the concatenation of its pieces.                             *)
(***************************************************************************)
\* the longest upstream body, in pieces
MaxBody == 2

\* ProxyService.target_url
DevUrl == "http://localhost:3000"

ProxyPaths == {"/", "/logo.png"}

\* a byte that is no UTF-8, and the U+FFFD that a lossy decoding puts for it
InvalidByte == "\\xFF"

Replacement == "U+FFFD"

\* the bodies an upstream sends
Bodies == SeqsUpTo({"<p>ok</p>", InvalidByte}, MaxBody)

NoBody == <<>>

\* what self.client.get(&target_url).send().await comes to: a response with
\* its status and the bytes of its body, or a reqwest::Error
GetResponse(status, body) ==
    [kind |-> "response", status |-> status, body |-> body, error |-> ""]

GetError(error) == [kind |-> "error", status |-> NoStatus, body |-> NoBody, error |-> error]

GetOutcomes ==
    {GetResponse(s, b) : s \in Statuses, b \in Bodies}
        \cup {GetError(e) : e \in {"connection refused", "operation timed out"}}

\* response.text(): the bytes decoded as UTF-8, each malformed sequence
\* replaced by U+FFFD
Text(body) == [i \in DOMAIN body |-> IF body[i] = InvalidByte THEN Replacement ELSE body[i]]

\* response.text().await.unwrap_or_default(): a failed read gives ""
TextOrDefault(body, read_ok) == IF read_ok THEN Text(body) ELSE NoBody

\* the script of a page that reloads itself after ms milliseconds
ReloadScript(ms) ==
    <<"<script>", "setTimeout(() => { window.location.reload(); }, ", ms, ");", "</script>">>

\* create_error_page gone wrong: the page has no script
CreateErrorPageStatic(error) ==
    <<"<title>", "Development Server ", "Unavailable", "</title>",
      "<h1>", "Development Server ", "Unavailable", "</h1>",
      "Could not connect to: ", DevUrl, "Error: ", error,
      "Troubleshooting", "Make sure ", DevUrl, " is correct">>

\* create_error_page(&e)
CreateErrorPage(error) ==
    <<"<title>", "Development Server ", "Unavailable", "</title>",
      "<h1>", "Development Server ", "Unavailable", "</h1>",
      "Could not connect to: ", DevUrl, "Error: ", error,
      "Troubleshooting", "Make sure ", DevUrl, " is correct">>
        \o ReloadScript("3000")

\* create_unavailable_error_page()
CreateUnavailableErrorPage ==
    <<"<title>", "Development Server ", "Unavailable", "</title>",
      "<h1>", "Development Server ", "Starting", "</h1>",
      "The development server at ", DevUrl, " is not ready yet.">>
        \o ReloadScript("2000")

Contains(text, piece) == \E i \in DOMAIN text : text[i] = piece

\* a text contains a script that reloads the page
ContainsReload(text) ==
    \E i \in DOMAIN text :
        /\ i + 1 \in DOMAIN text
        /\ text[i] = "<script>"
        /\ text[i + 1] = "setTimeout(() => { window.location.reload(); }, "

\* Response::builder().status(..).header("content-type", "text/html")
\* .body(..).unwrap(): the builder fails on a status outside 100..999
BuildResponse(status, body) ==
    IF 100 <= status /\ status <= 999
    THEN [ret |-> "Ok", status |-> status, content_type |-> "text/html", body |-> body]
    ELSE [ret |-> "panic", status |-> NoStatus, content_type |-> "", body |-> NoBody]

\* proxy_request gone wrong: `?` on send() returns the reqwest::Error
ProxyRequestPropagates(probe, get, read_ok) ==
    IF ~IsHealthy(probe)
    THEN BuildResponse(503, CreateUnavailableErrorPage)
    ELSE IF get.kind = "response"
         THEN BuildResponse(get.status, TextOrDefault(get.body, read_ok))
         ELSE [ret |-> "ProxyError", status |-> NoStatus, content_type |-> "",
               body |-> NoBody]

\* proxy_request: probe is what the pre-flight is_healthy() met, get what
\* the GET of target_url + path came to, read_ok whether the body was read
ProxyRequest(probe, get, read_ok) ==
    IF ~IsHealthy(probe)
    THEN BuildResponse(503, CreateUnavailableErrorPage)
    ELSE IF get.kind = "response"
         THEN BuildResponse(get.status, TextOrDefault(get.body, read_ok))
         ELSE BuildResponse(503, CreateErrorPage(get.error))

\* proxy_request gone wrong: the GET is sent whatever the probe reported
UpstreamRequestsUnconditional(path, probe) == <<<<DevUrl>>, <<DevUrl, path>>>>

\* the URLs proxy_request sends a GET to, in the order it sends them: the
\* probe of is_healthy() to target_url, awaited, and only when it reported
\* healthy the GET of target_url + path
UpstreamRequests(path, probe) ==
    IF ~IsHealthy(probe) THEN <<<<DevUrl>>>>
    ELSE <<<<DevUrl>>, <<DevUrl, path>>>>

NoProxied == [op |-> "none", url |-> <<>>, probe |-> Elapsed, get |-> GetError(""),
              read_ok |-> FALSE, sent |-> <<>>,
              response |-> BuildResponse(NoStatus, NoBody)]

\* one proxy_request(path), with what the upstream would do at each of its
\* steps; the GET is sent to format!("{}{}", self.target_url, path)
ProxyRequestCall(path, probe, get, read_ok) ==
    /\ proxied' = [op |-> "proxy_request", url |-> <<DevUrl, path>>, probe |-> probe,
                   get |-> get, read_ok |-> read_ok,
                   sent |-> UpstreamRequests(path, probe),
                   response |-> ProxyRequest(probe, get, read_ok)]
    /\ UNCHANGED <<now, target, waiter>>
    /\ UNCHANGED <<rvars, pvars>>

(***************************************************************************)
(* Specifications                                                          *)
(***************************************************************************)
RouterInit ==
    /\ router = NoRouter
    /\ pattern_cache = <<>>
    /\ first = <<>>
    /\ ret = NoRet

\* ProcessManager::new
ProcessInit ==
    /\ processes = NoProcesses
    /\ child = <<>>
    /\ task = [t \in Tasks |-> IdleTask]
    /\ dropped = FALSE
    /\ pret = NoPret

\* HealthChecker::new: no call yet, the dev server not yet listening
HealthInit ==
    /\ now = 0
    /\ target = Target("refused", NoStatus, 0)
    /\ waiter = IdleWaiter

\* ProxyService::new
ProxyInit == proxied = NoProxied

Init == RouterInit /\ ProcessInit /\ HealthInit /\ ProxyInit

\* Router::new alone, on every route list
BuildNext ==
    /\ router.status = "unbuilt"
    /\ \E routes \in SeqsUpTo(RouteConfigs, MaxBuildRoutes), mode \in Modes, oc \in BOOLEAN :
           RouterNew(routes, mode, oc)

SpecBuild == Init /\ [][BuildNext]_vars

\* a Router and the calls made on it
RouterNext ==
    \/ /\ router.status = "unbuilt"
       /\ \E routes \in SeqsUpTo(ServedConfigs, MaxRoutes), mode \in Modes, oc \in BOOLEAN :
              RouterNew(routes, mode, oc)
    \/ \E path \in Paths : MatchRouteCall(path)
    \/ \E path \in Paths : RouteHandlerCall(path)

SpecRouter == Init /\ [][RouterNext]_vars

\* a HeisenbergService and the requests it is called with
ServiceNext ==
    \/ /\ router.status = "unbuilt"
       /\ \E routes \in SeqsUpTo(ServedConfigs, MaxRoutes), mode \in Modes, oc \in BOOLEAN :
              ServiceNew(routes, mode, oc)
    \/ \E path \in Paths : ServiceCall(path)

SpecService == Init /\ [][ServiceNext]_vars

\* a ProcessManager, its callers and its children
ProcessNext ==
    \/ \E t \in Tasks, id \in RouteIds, command_empty, spawn_ok, open \in BOOLEAN :
           StartProcess(t, id, command_empty, spawn_ok, open)
    \/ \E t \in Tasks : StartInsert(t)
    \/ \E t \in Tasks : StartHealthy(t)
    \/ \E t \in Tasks : StartTimeout(t)
    \/ \E t \in Tasks, opened \in BOOLEAN : StartBrowser(t, opened)
    \/ \E id \in RouteIds : IsProcessRunning(id)
    \/ \E id \in RouteIds : StopProcess(id)
    \/ StopAllProcesses
    \/ Drop
    \/ \E c \in DOMAIN child : ChildExit(c)

SpecProcess == Init /\ [][ProcessNext]_vars

\* one wait_for_healthy call, the clock and the dev server it probes
HealthNext ==
    \/ \E max_wait \in 0..MaxWait : WaitForHealthy(max_wait)
    \/ \E attempt \in Attempts : ProbeEnd(attempt)
    \/ Wake
    \/ Tick
    \/ \E mode \in {"refused", "silent", "answers"}, status \in Statuses :
           TargetChange(mode, status)

SpecHealth == Init /\ [][HealthNext]_vars

\* a ProxyService and the requests it forwards
ProxyNext ==
    \E path \in ProxyPaths, probe \in Attempts, get \in GetOutcomes, read_ok \in BOOLEAN :
        ProxyRequestCall(path, probe, get, read_ok)

SpecProxy == Init /\ [][ProxyNext]_vars

(***************************************************************************)
(* Properties of the router                                                *)
(***************************************************************************)
\* the entries of the built router of one matcher kind that match path
MatchingOf(kind, path) ==
    {i \in DOMAIN router.routes :
        /\ router.routes[i].matcher.kind = kind
        /\ Matches(router.routes[i].matcher, path)}

\* C1: what match_route returns is the Exact route that matches the path if
\* there is one, otherwise a Prefix route if one matches, and a CatchAll
\* route only when neither an Exact nor a Prefix route matches.
C1_ExactOverPrefixOverCatchAll ==
    ret.op = "match_route" =>
        LET exact == MatchingOf("Exact", ret.path)
            prefix == MatchingOf("Prefix", ret.path)
            catchall == MatchingOf("CatchAll", ret.path)
        IN  /\ exact # {} => \E i \in exact : ret.result = router.routes[i].config
            /\ exact = {} /\ prefix # {} =>
                   \E i \in prefix : ret.result = router.routes[i].config
            /\ (\E i \in catchall : ret.result = router.routes[i].config) =>
                   exact = {} /\ prefix = {}

Slash == Str(<<"/">>)

\* C2: a Prefix matcher compiled from p/* matches a path exactly when the
\* path is p or starts with p followed by "/".
C2_PrefixMatchesAtBoundary ==
    \A i \in DOMAIN router.routes :
        router.routes[i].matcher.kind = "Prefix" =>
            \A path \in Paths :
                Matches(router.routes[i].matcher, path) <=>
                    \/ path = router.routes[i].matcher.text
                    \/ StartsWith(path, Cat(router.routes[i].matcher.text, Slash))

\* C3: every match_route call returns what the first call with the same path
\* returned, whether the cache or the scan answers it.
C3_MatchRouteRepeats ==
    ret.op = "match_route" => ret.result = first[ret.path]

\* C3's case: a route returned from the cache after another path was resolved
C3_Witness ==
    /\ ret.op = "match_route"
    /\ ret.hit
    /\ ret.result # NoRoute
    /\ Cardinality(DOMAIN first) = 2
    /\ Len(router.routes) = 2

\* two routes of the input carry the same pattern string
HasDuplicatePattern(routes) ==
    \E i \in DOMAIN routes : \E j \in DOMAIN routes :
        i # j /\ routes[i].pattern = routes[j].pattern

\* C4: Router::new on a route list in which two routes carry the same pattern
\* fails with the duplicate-pattern configuration error and builds no router.
C4_DuplicatePatternRejected ==
    ret.op = "new" /\ HasDuplicatePattern(router.input) =>
        /\ router.status = "config_error"
        /\ router.error = "Duplicate route pattern"
        /\ router.routes = <<>>

\* C4's case: the two routes are not neighbours and differ in another field
C4_Witness ==
    /\ ret.op = "new"
    /\ router.status = "config_error"
    /\ Len(router.input) = 3
    /\ router.input[1].pattern = router.input[3].pattern
    /\ router.input[1].embed_dir # router.input[3].embed_dir
    /\ router.input[2].pattern # router.input[1].pattern

\* C5: Router::new on a route list that holds an empty pattern returns a
\* configuration error and builds no router.
C5_EmptyPatternRejected ==
    ret.op = "new" /\ (\E i \in DOMAIN router.input : router.input[i].pattern = <<>>) =>
        /\ router.status = "config_error"
        /\ router.routes = <<>>

\* C6: route_handler returns None exactly when match_route does, and
\* otherwise match_route's route under Proxy in Development and under
\* StaticFiles in Production.
C6_RouteHandlerTagsByMode ==
    ret.op = "route_handler" =>
        LET m == MatchRoute(router, pattern_cache, ret.path).result
        IN  /\ ret.handler = "None" <=> m = NoRoute
            /\ m # NoRoute =>
                   /\ ret.result = m
                   /\ router.mode = "Development" => ret.handler = "Proxy"
                   /\ router.mode = "Production" => ret.handler = "StaticFiles"

\* C6's case: a Production router tags a route it had resolved before
C6_Witness ==
    /\ ret.op = "route_handler"
    /\ router.mode = "Production"
    /\ ret.handler = "StaticFiles"
    /\ ret.hit
    /\ Cardinality(DOMAIN first) = 2

\* C7: call() lets the proxy respond to a matched path in Development, the
\* static files in Production, and the inner service only to an unmatched path.
C7_CallDispatchesByMode ==
    ret.op = "call" =>
        IF ret.result # NoRoute
        THEN ret.served = IF router.mode = "Development" THEN "proxy" ELSE "static"
        ELSE ret.served = "inner"

(***************************************************************************)
(* Properties of the process manager                                       *)
(***************************************************************************)
\* C8: once the ProcessManager is dropped none of the children it spawned runs.
C8_NoChildOutlivesManager ==
    dropped => \A c \in DOMAIN child : child[c] # "running"

\* C9: when stop_all_processes returns the registry is empty, every child
\* tracked at the call was killed and waited on, and is_process_running is
\* false for every route id.
C9_StopAllLeavesNothing ==
    pret.op = "stop_all_processes" =>
        /\ processes = NoProcesses
        /\ \A id \in DOMAIN pret.before :
               pret.before[id] \in pret.stopped /\ child[pret.before[id]] = "reaped"
        /\ \A id \in RouteIds : ~IsProcessRunningResult(processes, child, id).running

\* C9's case: two ids were tracked, one start_process is in its health wait
C9_Witness ==
    /\ pret.op = "stop_all_processes"
    /\ DOMAIN pret.before = RouteIds
    /\ \E t \in Tasks : task[t].pc = "waiting"

\* C10: stop_process returns Ok; a tracked id has its child killed and waited
\* on and its record removed, every other record staying; an untracked id
\* leaves the registry as it was.
C10_StopProcessRemovesOne ==
    pret.op = "stop_process" =>
        /\ pret.result = "Ok"
        /\ IF pret.route_id \in DOMAIN pret.before
           THEN /\ pret.stopped = {pret.before[pret.route_id]}
                /\ child[pret.before[pret.route_id]] = "reaped"
                /\ DOMAIN processes = DOMAIN pret.before \ {pret.route_id}
                /\ \A id \in DOMAIN processes : processes[id] = pret.before[id]
           ELSE /\ pret.stopped = {}
                /\ processes = pret.before

\* C10's case: the id stopped was tracked, and so was the other one
C10_Witness ==
    /\ pret.op = "stop_process"
    /\ DOMAIN pret.before = RouteIds
    /\ pret.before[pret.route_id] # pret.before[CHOOSE id \in RouteIds : id # pret.route_id]

\* C11: is_process_running(id) returns true exactly when id has a record
\* whose child has not exited, and then leaves the registry as it was; when
\* the tracked child has exited it removes the record of id, and only that
\* one, and returns false; for an untracked id it returns false and changes
\* nothing.  A child's exit by itself leaves the registry as it was.
C11_IsProcessRunningReapsLazily ==
    [][/\ pret'.op = "is_process_running" =>
              LET id == pret'.route_id
                  tracked == id \in DOMAIN processes
                  alive == tracked /\ child[processes[id]] = "running"
              IN  /\ (pret'.result = "true") <=> alive
                  /\ (pret'.result = "false") <=> ~alive
                  /\ alive => processes' = processes
                  /\ (tracked /\ ~alive) =>
                         /\ DOMAIN processes' = DOMAIN processes \ {id}
                         /\ \A i \in DOMAIN processes' : processes'[i] = processes[i]
                  /\ ~tracked => processes' = processes
       /\ (\E c \in DOMAIN child : child[c] = "running" /\ child'[c] = "exited")
              => processes' = processes]_vars

\* C11's case: the child of the id asked about had exited, its record is
\* gone and the record of the other id stays
C11_Witness ==
    /\ pret.op = "is_process_running"
    /\ pret.result = "false"
    /\ DOMAIN pret.before = RouteIds
    /\ DOMAIN processes = RouteIds \ {pret.route_id}
    /\ \E c \in DOMAIN child : child[c] = "running"

\* C12: when the health wait of start_process times out the call returns a
\* HealthCheck error, kills no child and changes no record, and the child
\* it spawned, while it runs, is the one recorded under route_id, the one
\* stop_process(route_id) kills and waits on.
C12_TimeoutLeavesChildTracked ==
    [][\A t \in Tasks :
           (task[t].pc = "waiting" /\ task'[t].pc = "idle" /\ pret'.result # "Ok") =>
               /\ pret'.op = "start_process"
               /\ pret'.result = "HealthCheck"
               /\ child' = child
               /\ processes' = processes
               /\ child'[task[t].child] = "running" =>
                      /\ task[t].route_id \in DOMAIN processes'
                      /\ processes'[task[t].route_id] = task[t].child
                      /\ StopProcessResult(processes', task[t].route_id).stopped
                             = {task[t].child}]_vars

\* C13: a start_process call with an empty command, or whose spawn fails,
\* returns a Process error in that one step: no child is added or changed,
\* the caller does not go on to the health wait, and no record of the
\* registry is added, replaced or removed.
C13_FailedStartChangesNothing ==
    [][(pret'.op = "spawn" \/ pret'.result = "Process") =>
           \A t \in Tasks, command_empty, spawn_ok \in BOOLEAN :
               ((command_empty \/ ~spawn_ok)
                    /\ \E open \in BOOLEAN :
                           StartProcess(t, pret'.route_id, command_empty, spawn_ok, open)) =>
                   /\ pret'.op = "start_process"
                   /\ pret'.result = "Process"
                   /\ child' = child
                   /\ task'[t].pc = "idle"
                   /\ \A u \in Tasks : task'[u].pc = "waiting" => task[u].pc = "waiting"
                   /\ processes' = processes]_vars

\* C13's case: start_process failed while both ids were tracked and the
\* other caller was in its health wait
C13_Witness ==
    /\ pret.op = "start_process"
    /\ pret.result = "Process"
    /\ pret.before = processes
    /\ DOMAIN processes = RouteIds
    /\ \E t \in Tasks : task[t].pc = "waiting"

\* C14: start_process tries to open the browser only when open_browser is
\* set and only after its health wait returned Ok, never in a call that
\* returns a HealthCheck or Process error; whether the attempt succeeds or
\* fails the call returns Ok, and the attempt changes no record and no child.
C14_BrowserOnlyAfterHealthy ==
    [][/\ \A t \in Tasks :
              /\ (task'[t].pc = "browser" /\ task[t].pc # "browser") =>
                     /\ task[t].pc = "waiting"
                     /\ task[t].open_browser
                     /\ pret'.op = "healthy"
              /\ (task[t].pc = "waiting" /\ task'[t].pc = "idle") =>
                     /\ pret'.browser = "none"
                     /\ pret'.result = "Ok" => ~task[t].open_browser
              /\ (task[t].pc = "browser" /\ task'[t].pc # "browser") =>
                     /\ task[t].open_browser
                     /\ pret'.op = "start_process"
                     /\ pret'.browser \in {"opened", "failed"}
                     /\ pret'.result = "Ok"
                     /\ processes' = processes
                     /\ child' = child
       /\ pret'.browser # "none" =>
              \E t \in Tasks : task[t].pc = "browser" /\ task'[t].pc = "idle"
       /\ pret'.result \in {"HealthCheck", "Process"} => pret'.browser = "none"]_vars

\* C14's case: the browser could not be opened, the call returned Ok and the
\* record it had inserted is in the registry
C14_Witness ==
    /\ pret.op = "start_process"
    /\ pret.browser = "failed"
    /\ pret.result = "Ok"
    /\ pret.route_id \in DOMAIN processes
    /\ processes = pret.before

(***************************************************************************)
(* Properties of the health checker                                        *)
(***************************************************************************)
\* C15: wait_for_healthy(D) returns Ok if the target has become reachable
\* at some time before D has elapsed since the call, and the HealthCheck
\* timeout error otherwise.
C15_OkIffReachableBeforeDeadline ==
    waiter.pc = "done" =>
        IF target.since # NoTime /\ target.since < waiter.max_wait
        THEN waiter.result = "Ok"
        ELSE waiter.result = "HealthCheck"

\* C16: check_health is Ok exactly when a response arrives before the
\* per-attempt timer fires and its status is 2xx or 4xx, a 404 included; a
\* response of another status class and an attempt the timer ends are
\* unhealthy; is_healthy is true exactly when check_health is Ok.
C16_HealthyIffAnswered2xxOr4xx ==
    waiter.last.kind # "none" =>
        /\ (waiter.last.result = "Ok") <=>
               /\ waiter.last.kind = "response"
               /\ waiter.last.latency <= AttemptTimeout
               /\ waiter.last.status \in 200..299 \cup 400..499
        /\ waiter.last.kind = "elapsed" =>
               waiter.last.latency = AttemptTimeout /\ waiter.last.result # "Ok"
        /\ waiter.last.is_healthy <=> (waiter.last.result = "Ok")
        /\ waiter.last.is_healthy <=> (waiter.pc = "done" /\ waiter.result = "Ok")

\* C16's case: a 404 that took a second to arrive was found healthy
C16_Witness ==
    /\ waiter.last.kind = "response"
    /\ waiter.last.status = 404
    /\ waiter.last.latency = 2
    /\ waiter.last.is_healthy
    /\ waiter.result = "Ok"

\* C17: every failure of check_health, an unhealthy status, the per-attempt
\* timeout or a transport failure such as a refused connection, is returned
\* as the HealthCheck kind of error.
C17_FailuresAreHealthCheckErrors ==
    (waiter.last.kind # "none" /\ waiter.last.result # "Ok") =>
        waiter.last.result = "HealthCheck"

(***************************************************************************)
(* Properties of the proxy                                                 *)
(***************************************************************************)
\* C18: whatever the pre-flight probe, the GET and the reading of the body
\* come to, proxy_request returns Ok(response), never Err and never a
\* panic, and the response's status is the upstream's status or 503.
C18_AlwaysAResponse ==
    proxied.op = "proxy_request" =>
        /\ proxied.response.ret = "Ok"
        /\ \/ proxied.response.status = 503
           \/ /\ proxied.get.kind = "response"
              /\ proxied.response.status = proxied.get.status

\* C18's case: the probe was healthy, then the GET failed
C18_Witness ==
    /\ proxied.op = "proxy_request"
    /\ IsHealthy(proxied.probe)
    /\ proxied.get.kind = "error"
    /\ proxied.response.ret = "Ok"

\* the upstream did not answer the probe: the connection failed or the
\* per-attempt timer fired
Unreachable(probe) == probe.kind \in {"error", "elapsed"}

\* C19: when the upstream is unreachable at the pre-flight probe, or at the
\* GET that follows a healthy probe, the response has status 503 and an
\* HTML body that contains 'Unavailable' and a script that reloads the page.
C19_UnreachableGives503Page ==
    (/\ proxied.op = "proxy_request"
     /\ \/ Unreachable(proxied.probe)
        \/ IsHealthy(proxied.probe) /\ proxied.get.kind = "error") =>
        /\ proxied.response.status = 503
        /\ proxied.response.content_type = "text/html"
        /\ Contains(proxied.response.body, "Unavailable")
        /\ ContainsReload(proxied.response.body)

\* C19's case: the GET after a healthy probe timed out
C19_Witness ==
    /\ proxied.op = "proxy_request"
    /\ proxied.probe = Response(404)
    /\ proxied.get = GetError("operation timed out")
    /\ proxied.response.status = 503
    /\ Contains(proxied.response.body, "operation timed out")

\* C20: when the pre-flight probe is healthy and the upstream answers the
\* GET, the response has the upstream's status and the upstream's body,
\* unchanged, whatever the status.
C20_UpstreamAnswerVerbatim ==
    (/\ proxied.op = "proxy_request"
     /\ IsHealthy(proxied.probe)
     /\ proxied.get.kind = "response") =>
        /\ proxied.response.status = proxied.get.status
        /\ proxied.response.body = proxied.get.body

(***************************************************************************)
(* Static file serving (services/static_files.rs, adapters/actix.rs)       *)
(*                                                                         *)
(* A request path or a file path is the sequence of its pieces: the        *)
(* separator "/" and the names between separators.  A location is the      *)
(* sequence of directory and file names from the root of the file system.  *)
(***************************************************************************)
Sep == "/"

StaticPaths ==
    { <<>>,
      <<Sep>>,
      <<Sep, "index.html">>,
      <<Sep, "app.js">>,
      <<Sep, "deep", Sep, "page">>,
      <<Sep, "..", Sep, "secret.txt">>,
      <<Sep, "assets", Sep, "..", Sep, "app.js">>,
      <<Sep, Sep, "etc", Sep, "passwd">> }

\* Option<String> fallback_file: <<>> is None, <<name>> is Some(name)
NoFallback == <<>>

Fallbacks == {NoFallback, <<"index.html">>, <<"200.html">>}

\* embed_dir of the route ("./dist" resolved by the OS like "dist")
EmbedDir == <<"dist">>

\* the working directory of the server process
Cwd == <<"srv">>

\* the files that may exist, by location
AllFiles ==
    { <<"srv", "dist", "index.html">>,
      <<"srv", "dist", "200.html">>,
      <<"srv", "dist", "app.js">>,
      <<"srv", "secret.txt">>,
      <<"etc", "passwd">> }

\* str::strip_prefix('/').unwrap_or(path): one leading separator is removed
StripPrefixSlash(path) ==
    IF path # <<>> /\ Head(path) = Sep THEN Tail(path) ELSE path

\* Path::is_absolute on unix
IsAbsolute(path) == path # <<>> /\ Head(path) = Sep

\* PathBuf::join: an absolute argument replaces the base, a relative one is
\* appended after a separator
Join(base, path) ==
    IF IsAbsolute(path) THEN path ELSE base \o <<Sep>> \o path

RECURSIVE Walk(_, _)
\* the location the OS reaches from directory at by following the pieces:
\* ".." goes to the parent (the root is its own parent), "." and the empty
\* name between two separators stay
Walk(at, path) ==
    IF path = <<>> THEN at
    ELSE IF Head(path) = Sep \/ Head(path) = "." THEN Walk(at, Tail(path))
    ELSE IF Head(path) = ".."
         THEN Walk(IF at = <<>> THEN at ELSE SubSeq(at, 1, Len(at) - 1), Tail(path))
    ELSE Walk(Append(at, Head(path)), Tail(path))

\* the location a path names for open(2): from the root when absolute, from
\* the working directory otherwise
Resolve(path) ==
    IF IsAbsolute(path) THEN Walk(<<>>, path) ELSE Walk(Cwd, path)

\* Path::extension().and_then(to_str) of the names used here
Extension(path) ==
    LET name == IF path = <<>> THEN "" ELSE path[Len(path)]
    IN  CASE name \in {"index.html", "200.html"} -> "html"
          [] name = "app.js" -> "js"
          [] name = "secret.txt" -> "txt"
          [] OTHER -> ""

\* the content type serve_embedded_asset picks from the extension
ContentTypeOf(ext) ==
    CASE ext = "html" -> "text/html; charset=utf-8"
      [] ext = "css" -> "text/css; charset=utf-8"
      [] ext = "js" -> "application/javascript; charset=utf-8"
      [] ext = "json" -> "application/json; charset=utf-8"
      [] ext = "png" -> "image/png"
      [] ext \in {"jpg", "jpeg"} -> "image/jpeg"
      [] ext = "gif" -> "image/gif"
      [] ext = "svg" -> "image/svg+xml"
      [] ext = "ico" -> "image/x-icon"
      [] ext = "woff" -> "font/woff"
      [] ext = "woff2" -> "font/woff2"
      [] ext = "ttf" -> "font/ttf"
      [] OTHER -> "application/octet-stream"

\* what serving answers: a 200 with the content of the file read (named by
\* its location), or an error
Asset(content_type, read) ==
    [status |-> "Ok", code |-> 200, content_type |-> content_type, read |-> read]

AssetError(kind) ==
    [status |-> kind, code |-> NoStatus, content_type |-> "", read |-> <<>>]

\* tokio::fs::read(path) succeeds when a file exists at the location
ReadOk(files, path) == Resolve(path) \in files

\* the file a request path asks for, relative to the asset directory: the
\* fallback file (index.html by default) for the root, else the path without
\* its leading separator
FilePath(path, fallback_file) ==
    IF path = <<Sep>> \/ path = <<>>
    THEN IF fallback_file # NoFallback THEN fallback_file ELSE <<"index.html">>
    ELSE StripPrefixSlash(path)

\* actix serve_embedded_asset(path, route_config) over the files that exist
ServeEmbeddedAsset(path, fallback_file, files) ==
    LET file_path == FilePath(path, fallback_file)
        full_path == Join(EmbedDir, file_path)
        fallback_path == Join(EmbedDir, fallback_file)
    IN  IF ReadOk(files, full_path)
        THEN Asset(ContentTypeOf(Extension(full_path)), Resolve(full_path))
        ELSE IF fallback_file # NoFallback
        THEN IF ReadOk(files, fallback_path)
             THEN Asset("text/html; charset=utf-8", Resolve(fallback_path))
             ELSE AssetError("NotFound")
        ELSE AssetError("NotFound")

\* the one page StaticFileService::serve_file answers with
StaticIndex == <<"static", "index">>

\* StaticFileService::new(fallback_file).serve_file(path)
ServeFile(path, fallback_file) ==
    IF path = <<Sep>> \/ path = <<Sep, "index.html">>
    THEN Asset("text/html", StaticIndex)
    ELSE AssetError("FileNotFound")

NoServed == [op |-> "none", path |-> <<>>, fallback_file |-> NoFallback,
             files |-> {}, result |-> AssetError("none")]

\* one serve_embedded_asset call of the actix adapter in Production mode
ServeEmbeddedAssetCall(path, fallback_file, files) ==
    /\ ret' = [NoServed EXCEPT !.op = "serve_embedded_asset", !.path = path,
                               !.fallback_file = fallback_file, !.files = files,
                               !.result = ServeEmbeddedAsset(path, fallback_file, files)]
    /\ UNCHANGED <<router, pattern_cache, first>>
    /\ UNCHANGED <<pvars, svars>>

\* one serve_file call on a StaticFileService built with fallback_file
ServeFileCall(path, fallback_file) ==
    /\ ret' = [NoServed EXCEPT !.op = "serve_file", !.path = path,
                               !.fallback_file = fallback_file,
                               !.result = ServeFile(path, fallback_file)]
    /\ UNCHANGED <<router, pattern_cache, first>>
    /\ UNCHANGED <<pvars, svars>>

\* static serving, on every path, fallback setting and set of files
StaticNext ==
    \/ \E path \in StaticPaths, fallback_file \in Fallbacks, files \in SUBSET AllFiles :
           ServeEmbeddedAssetCall(path, fallback_file, files)
    \/ \E path \in StaticPaths, fallback_file \in Fallbacks :
           ServeFileCall(path, fallback_file)

SpecStatic == Init /\ [][StaticNext]_vars

(***************************************************************************)
(* Mode detection (core/mode.rs)                                           *)
(*                                                                         *)
(* The value of HEISENBERG_MODE is the sequence of its characters.         *)
(***************************************************************************)
LowerCase ==
    <<"a", "b", "c", "d", "e", "f", "g", "h", "i", "j", "k", "l", "m",
      "n", "o", "p", "q", "r", "s", "t", "u", "v", "w", "x", "y", "z">>

UpperCase ==
    <<"A", "B", "C", "D", "E", "F", "G", "H", "I", "J", "K", "L", "M",
      "N", "O", "P", "Q", "R", "S", "T", "U", "V", "W", "X", "Y", "Z">>

\* char::to_lowercase on the characters used here
CharToLowercase(c) ==
    IF \E i \in DOMAIN UpperCase : UpperCase[i] = c
    THEN LowerCase[CHOOSE i \in DOMAIN UpperCase : UpperCase[i] = c]
    ELSE c

CharToUppercase(c) ==
    IF \E i \in DOMAIN LowerCase : LowerCase[i] = c
    THEN UpperCase[CHOOSE i \in DOMAIN LowerCase : LowerCase[i] = c]
    ELSE c

\* str::to_lowercase
ToLowercase(s) == [i \in DOMAIN s |-> CharToLowercase(s[i])]

\* "production" | "prod" | "embed"
ProductionWords ==
    { <<"p", "r", "o", "d", "u", "c", "t", "i", "o", "n">>,
      <<"p", "r", "o", "d">>,
      <<"e", "m", "b", "e", "d">> }

\* "development" | "dev" | "proxy"
DevelopmentWords ==
    { <<"d", "e", "v", "e", "l", "o", "p", "m", "e", "n", "t">>,
      <<"d", "e", "v">>,
      <<"p", "r", "o", "x", "y">> }

\* values the variable may hold besides the six recognised words
OtherWords ==
    { <<>>,
      <<"1">>,
      <<"o", "n">>,
      <<"t", "e", "s", "t">>,
      <<"d", "e", "b", "u", "g">>,
      <<"r", "e", "l", "e", "a", "s", "e">>,
      <<"s", "t", "a", "g", "i", "n", "g">>,
      <<"p", "r", "o", "d", " ">>,
      <<" ", "d", "e", "v">>,
      <<"d", "e", "v", "e", "l">>,
      <<"p", "r", "o", "d", "u", "c", "t">> }

\* the spellings of a word: as is, upper case, capitalised, alternating
Spellings(w) ==
    { w,
      [i \in DOMAIN w |-> CharToUppercase(w[i])],
      [i \in DOMAIN w |-> IF i = 1 THEN CharToUppercase(w[i]) ELSE w[i]],
      [i \in DOMAIN w |-> IF i % 2 = 0 THEN CharToUppercase(w[i]) ELSE w[i]] }

\* std::env::var("HEISENBERG_MODE"): Ok(value), or Err when the variable is
\* not set or its value is not valid Unicode
EnvVar(kind, value) == [kind |-> kind, value |-> value]

EnvVars ==
    {EnvVar("unset", <<>>), EnvVar("not_unicode", <<>>)}
        \cup {EnvVar("value", s) :
                 s \in UNION {Spellings(w) :
                                 w \in ProductionWords \cup DevelopmentWords \cup OtherWords}}

\* detect_mode compared without to_lowercase
DetectModeCaseSensitive(var, debug_assertions) ==
    IF var.kind = "value" /\ var.value \in ProductionWords THEN "Production"
    ELSE IF var.kind = "value" /\ var.value \in DevelopmentWords THEN "Development"
    ELSE IF debug_assertions THEN "Development" ELSE "Production"

\* detect_mode() in a build with or without debug assertions
DetectMode(var, debug_assertions) ==
    IF var.kind = "value" /\ ToLowercase(var.value) \in ProductionWords
    THEN "Production"
    ELSE IF var.kind = "value" /\ ToLowercase(var.value) \in DevelopmentWords
    THEN "Development"
    ELSE IF debug_assertions THEN "Development" ELSE "Production"

NoDetected == [op |-> "none", env |-> EnvVar("unset", <<>>),
               debug_assertions |-> FALSE, mode |-> "none"]

\* one detect_mode call
DetectModeCall(var, debug_assertions) ==
    /\ ret' = [NoDetected EXCEPT !.op = "detect_mode", !.env = var,
                                 !.debug_assertions = debug_assertions,
                                 !.mode = DetectMode(var, debug_assertions)]
    /\ UNCHANGED <<router, pattern_cache, first>>
    /\ UNCHANGED <<pvars, svars>>

\* detect_mode on every value of the variable, in both build profiles
ModeNext ==
    \E var \in EnvVars, debug_assertions \in BOOLEAN :
        DetectModeCall(var, debug_assertions)

SpecMode == Init /\ [][ModeNext]_vars

(***************************************************************************)
(* Properties of mode detection                                            *)
(***************************************************************************)
\* two characters are the same letter in either case, or the same character
SameIgnoringCase(c, d) ==
    \/ c = d
    \/ \E i \in DOMAIN LowerCase : {c, d} = {LowerCase[i], UpperCase[i]}

\* the value spells the word, case ignored
Spells(value, w) ==
    /\ Len(value) = Len(w)
    /\ \A i \in DOMAIN w : SameIgnoringCase(value[i], w[i])

\* C22: detect_mode returns Production when HEISENBERG_MODE spells
\* production, prod or embed in any case, Development when it spells
\* development, dev or proxy in any case, and otherwise (unset or any other
\* value) the default of the build profile: Development with debug
\* assertions, Production without.
C22_EnvOverridesBuildDefault ==
    ret.op = "detect_mode" =>
        LET production == ret.env.kind = "value"
                              /\ \E w \in ProductionWords : Spells(ret.env.value, w)
            development == ret.env.kind = "value"
                               /\ \E w \in DevelopmentWords : Spells(ret.env.value, w)
        IN  /\ production => ret.mode = "Production"
            /\ development => ret.mode = "Development"
            /\ ~production /\ ~development =>
                   ret.mode = IF ret.debug_assertions THEN "Development"
                              ELSE "Production"

\* C22's case: a mixed-case PrOd overrides the default of a debug build
C22_Witness ==
    /\ ret.op = "detect_mode"
    /\ ret.env = EnvVar("value", <<"p", "R", "o", "D">>)
    /\ ret.debug_assertions
    /\ ret.mode = "Production"

(***************************************************************************)
(* Properties of static serving                                            *)
(***************************************************************************)
\* C21: when the file a path asks for is absent and a fallback file is
\* configured and present, static serving answers with the content of the
\* fallback file and an HTML content type; it answers not-found only when
\* the file is absent and the fallback is absent too or not configured.
\* StaticFileService holds the one file index.html.
C21_FallbackServedWhenFileAbsent ==
    /\ ret.op = "serve_embedded_asset" =>
           LET absent ==
                   ~ReadOk(ret.files, Join(EmbedDir, FilePath(ret.path, ret.fallback_file)))
               fallback_present ==
                   /\ ret.fallback_file # NoFallback
                   /\ ReadOk(ret.files, Join(EmbedDir, ret.fallback_file))
           IN  /\ absent /\ fallback_present =>
                      /\ ret.result.status = "Ok"
                      /\ ret.result.read = Resolve(Join(EmbedDir, ret.fallback_file))
                      /\ ret.result.content_type \in {"text/html", "text/html; charset=utf-8"}
               /\ ret.result.status = "NotFound" => absent /\ ~fallback_present
    /\ ret.op = "serve_file" =>
           LET absent == ret.path \notin {<<Sep>>, <<Sep, "index.html">>}
               fallback_present == ret.fallback_file = <<"index.html">>
           IN  /\ absent /\ fallback_present =>
                      /\ ret.result.status = "Ok"
                      /\ ret.result.read = StaticIndex
                      /\ ret.result.content_type \in {"text/html", "text/html; charset=utf-8"}
               /\ ret.result.status = "FileNotFound" => absent /\ ~fallback_present

\* the location lies below the asset directory
InsideEmbedDir(location) ==
    LET dir == Resolve(EmbedDir)
    IN  /\ Len(location) > Len(dir)
        /\ SubSeq(location, 1, Len(dir)) = dir

\* C30: for every request path, the file whose content serve_embedded_asset
\* answers with lies inside the route's asset directory.
C30_ReadsStayInsideEmbedDir ==
    ret.op = "serve_embedded_asset" /\ ret.result.status = "Ok" =>
        InsideEmbedDir(ret.result.read)

(***************************************************************************)
(* Route validation (core/config.rs)                                       *)
(*                                                                         *)
(* A dev proxy URL is the sequence of its pieces, the scheme first; a dev  *)
(* command is the sequence of its arguments.                               *)
(***************************************************************************)
ConfigPaths == {Str(<<"/">>), Str(<<"/", "a", "/", "b">>)}

\* SpaRouteConfig with the fields validate reads
ConfigRoutes ==
    [pattern : {<<>>, StarSuffix, Cat(Str(<<"/", "a">>), StarSuffix)},
     embed_dir : {"./dist"},
     dev_proxy_url : { <<"http://", "localhost:3000">>,
                       <<"https://", "dev.local">>,
                       <<"localhost:3000">>,
                       <<>> },
     dev_command : {<<"npm", "run", "dev">>, <<>>}]

\* str::starts_with on a URL and a scheme
UrlStartsWith(url, scheme) == url # <<>> /\ url[1] = scheme

\* SpaRouteConfig::validate: "Ok" or the message of the configuration error
SpaRouteConfigValidate(route) ==
    IF route.pattern = <<>> THEN "Route pattern cannot be empty"
    ELSE IF route.dev_command = <<>> THEN "Development command cannot be empty"
    ELSE IF route.dev_proxy_url = <<>> THEN "Development proxy URL cannot be empty"
    ELSE IF ~UrlStartsWith(route.dev_proxy_url, "http://")
            /\ ~UrlStartsWith(route.dev_proxy_url, "https://")
    THEN "Development proxy URL must start with http:// or https://"
    ELSE "Ok"

\* routers and services built from routes of every validity, and the
\* requests routed by them
ConfigNext ==
    \/ /\ router.status = "unbuilt"
       /\ \E routes \in SeqsUpTo(ConfigRoutes, MaxRoutes), mode \in Modes, oc \in BOOLEAN :
              RouterNew(routes, mode, oc)
    \/ /\ router.status = "unbuilt"
       /\ \E routes \in SeqsUpTo(ConfigRoutes, MaxRoutes), mode \in Modes, oc \in BOOLEAN :
              ServiceNew(routes, mode, oc)
    \/ \E path \in ConfigPaths : RouteHandlerCall(path)

SpecConfig == Init /\ [][ConfigNext]_vars

(***************************************************************************)
(* Properties of route validation                                          *)
(***************************************************************************)
\* C23: a route list that holds a configuration error (an empty pattern, a
\* duplicate pattern, a dev proxy URL that does not start with http:// or
\* https://, an empty dev command) yields no Router and no
\* HeisenbergService, and no request is routed to a route whose dev URL is
\* malformed or whose dev command is empty.
C23_ConfigErrorsRejectedAtConstruction ==
    /\ router.status = "ok" =>
           /\ ~HasDuplicatePattern(router.input)
           /\ \A i \in DOMAIN router.input :
                  SpaRouteConfigValidate(router.input[i]) = "Ok"
    /\ ret.op = "route_handler" /\ ret.result # NoRoute =>
           SpaRouteConfigValidate(ret.result) = "Ok"

(***************************************************************************)
(* Properties of the route cache and of the route order                    *)
(***************************************************************************)
\* C24: in every reachable router state each cache entry path -> i holds a
\* valid index i of the route list, route i matches path and no route before
\* i matches it; a path that matched no route is not in the cache; and no
\* step removes or changes an entry.
C24_CacheHoldsFirstMatchForever ==
    /\ [](\A path \in DOMAIN pattern_cache :
              LET i == pattern_cache[path]
              IN  /\ i >= 0 /\ i < Len(router.routes)
                  /\ Matches(router.routes[i + 1].matcher, path)
                  /\ \A j \in 0..(i - 1) : ~Matches(router.routes[j + 1].matcher, path))
    /\ [](\A path \in Paths :
              (\A i \in DOMAIN router.routes : ~Matches(router.routes[i].matcher, path)) =>
                  path \notin DOMAIN pattern_cache)
    /\ [][\A path \in DOMAIN pattern_cache :
              /\ path \in DOMAIN pattern_cache'
              /\ pattern_cache'[path] = pattern_cache[path]]_vars

\* C24's case: two paths cached, one of them for the second route, and the
\* last call answered from the cache
C24_Witness ==
    /\ Cardinality(DOMAIN pattern_cache) = 2
    /\ \E path \in DOMAIN pattern_cache : pattern_cache[path] = 1
    /\ ret.op = "match_route"
    /\ ret.hit

\* the route lists that hold the same routes as routes, in every order
Reorderings(routes) ==
    {p \in [DOMAIN routes -> {routes[i] : i \in DOMAIN routes}] :
        \A i \in DOMAIN routes : \E j \in DOMAIN routes : p[j] = routes[i]}

\* C27: for route lists with pairwise distinct patterns, the route
\* match_route returns for a path does not depend on the order the routes
\* were declared in: the router built from any permutation of the routes
\* returns the same route, or None as well, for every path.
C27_MatchIndependentOfDeclarationOrder ==
    router.status = "ok" /\ ~HasDuplicatePattern(router.input) =>
        \A other \in Reorderings(router.input) :
            LET rt == RouterNewResult(other, router.mode, FALSE)
            IN  /\ rt.status = "ok"
                /\ \A path \in Paths :
                       MatchRoute(rt, <<>>, path).result
                           = MatchRoute(router, <<>>, path).result

\* the pattern is one route_priority ranks as a prefix
IsPrefixPattern(pattern) == pattern # StarSuffix /\ HasStarSuffix(pattern)

\* C25: for a prefix pattern of every length, the rank K - len(prefix) that
\* route_priority computes is greater than the Exact rank 0 and smaller than
\* the CatchAll rank K, the longer of two prefixes has the smaller rank, and
\* the subtraction does not leave the usize range.
C25_PrefixRankBetweenExactAndCatchAll ==
    ret.op = "new" /\ Len(router.input) >= 2 =>
        \A i \in DOMAIN router.input :
            LET p == router.input[i].pattern
            IN  IsPrefixPattern(p) =>
                    /\ ~PriorityOverflows(p)
                    /\ UsizeLess(0, RoutePriority(p))
                    /\ UsizeLess(RoutePriority(p), K)
                    /\ \A j \in DOMAIN router.input :
                           LET q == router.input[j].pattern
                           IN  /\ IsPrefixPattern(q)
                               /\ ByteLen(StripStarSuffix(q)) > ByteLen(StripStarSuffix(p))
                               => UsizeLess(RoutePriority(q), RoutePriority(p))

(***************************************************************************)
(* Properties of the order of the upstream requests                        *)
(***************************************************************************)
\* C26: proxy_request sends the GET for dev_url + path only after the
\* pre-flight probe of the dev URL, and only when that probe reported
\* healthy; when the probe reports unhealthy no request for the path is sent
\* and the 503 unavailable page is returned.
C26_GetOnlyAfterHealthyProbe ==
    proxied.op = "proxy_request" =>
        /\ \A i \in DOMAIN proxied.sent :
               proxied.sent[i] = proxied.url =>
                   /\ i > 1
                   /\ proxied.sent[1] = <<DevUrl>>
                   /\ IsHealthy(proxied.probe)
        /\ ~IsHealthy(proxied.probe) =>
               /\ \A i \in DOMAIN proxied.sent : proxied.sent[i] # proxied.url
               /\ proxied.response = BuildResponse(503, CreateUnavailableErrorPage)

\* C26's case: the probe was answered with a 503 and the GET, had it been
\* sent, would have been answered
C26_Witness ==
    /\ proxied.op = "proxy_request"
    /\ proxied.probe = Response(503)
    /\ proxied.get.kind = "response"
    /\ proxied.sent = <<<<DevUrl>>>>
    /\ proxied.response.status = 503

(***************************************************************************)
(* The framework adapters (adapters/actix.rs, adapters/rocket.rs)          *)
(***************************************************************************)
\* path_matches of both adapters
PathMatches(pattern, path) ==
    IF pattern = StarSuffix THEN TRUE
    ELSE IF HasStarSuffix(pattern) THEN StartsWith(path, StripStarSuffix(pattern))
    ELSE pattern = path

\* config.routes.iter().find(|route| path_matches(&route.pattern, path))
FindRoute(routes, path) ==
    LET hits == {i \in DOMAIN routes : PathMatches(routes[i].pattern, path)}
    IN  IF hits = {} THEN NoRoute
        ELSE routes[CHOOSE i \in hits : \A j \in hits : i <= j]

\* what serve_spa goes on with: not-found, or the handler of the mode
SpaHandler(route, mode) ==
    IF route = NoRoute THEN "NotFound"
    ELSE IF mode = "Development" THEN "proxy_request"
    ELSE "serve_embedded_asset"

NoSpa == [op |-> "none", adapter |-> "none", path |-> <<>>,
          mode |-> "Development", result |-> NoRoute, handler |-> "none"]

\* one serve_spa call of an adapter, in the mode detect_mode() returns, on
\* the Heisenberg whose routes the router was built from
ServeSpaCall(adapter, path, mode) ==
    /\ router.status # "unbuilt"
    /\ ret' = [NoSpa EXCEPT !.op = "serve_spa", !.adapter = adapter,
                            !.path = path, !.mode = mode,
                            !.result = FindRoute(router.input, path),
                            !.handler = SpaHandler(FindRoute(router.input, path), mode)]
    /\ UNCHANGED <<router, pattern_cache, first>>
    /\ UNCHANGED <<pvars, svars>>

\* a Heisenberg's routes given to Router::new and to the adapters
AdapterNext ==
    \/ /\ router.status = "unbuilt"
       /\ \E routes \in SeqsUpTo(ServedConfigs, MaxRoutes), mode \in Modes, oc \in BOOLEAN :
              RouterNew(routes, mode, oc)
    \/ \E adapter \in {"actix", "rocket"}, path \in Paths, mode \in Modes :
           ServeSpaCall(adapter, path, mode)

SpecAdapter == Init /\ [][AdapterNext]_vars

(***************************************************************************)
(* Properties of the adapters                                              *)
(***************************************************************************)
\* C29: for every route list with pairwise distinct patterns and every
\* path, the route an adapter's serve_spa selects is the route match_route
\* of the Router built from the same routes returns for the path, and the
\* adapter reports not-found exactly when match_route returns None.
C29_AdaptersSelectWhatMatchRouteSelects ==
    /\ ret.op = "serve_spa"
    /\ router.status = "ok"
    /\ ~HasDuplicatePattern(router.input)
    => /\ ret.result = MatchRoute(router, <<>>, ret.path).result
       /\ ret.handler = "NotFound" <=>
              MatchRoute(router, <<>>, ret.path).result = NoRoute

=============================================================================
